---- MODULE Spec2Model ----
(***************************************************************************)
(* A model of queens.py: the listing parser (BaseParser), the tour page    *)
(* parser (TourParser), get_response and the main script that drives them  *)
(* and writes events.csv.  An HTML document is fed to a parser as the      *)
(* sequence of handler calls html.parser.HTMLParser makes for it.          *)
(* Python strings are sequences of one-character strings, so that the      *)
(* regular expressions are computed on the characters.                     *)
(***************************************************************************)
EXTENDS Integers, Sequences, FiniteSets, TLC

\* ---------------------------------------------------------------- bounds
\* Most links the listing page contributes, most records collected in a run.
MaxLinks == 2
MaxEvents == 2

\* ------------------------------------------------------------- characters
Digits == <<"0", "1", "2", "3", "4", "5", "6", "7", "8", "9">>

\* re.IGNORECASE compares letters case-folded.
Lower(c) ==
    CASE c = "A" -> "a"
      [] c = "B" -> "b"
      [] c = "C" -> "c"
      [] c = "D" -> "d"
      [] c = "E" -> "e"
      [] c = "F" -> "f"
      [] c = "G" -> "g"
      [] c = "H" -> "h"
      [] c = "I" -> "i"
      [] c = "J" -> "j"
      [] c = "K" -> "k"
      [] c = "L" -> "l"
      [] c = "M" -> "m"
      [] c = "N" -> "n"
      [] c = "O" -> "o"
      [] c = "P" -> "p"
      [] c = "Q" -> "q"
      [] c = "R" -> "r"
      [] c = "S" -> "s"
      [] c = "T" -> "t"
      [] c = "U" -> "u"
      [] c = "V" -> "v"
      [] c = "W" -> "w"
      [] c = "X" -> "x"
      [] c = "Y" -> "y"
      [] c = "Z" -> "z"
      [] OTHER -> c

\* \d
IsDigit(c) == c \in {"0", "1", "2", "3", "4", "5", "6", "7", "8", "9"}

DigitVal(c) == (CHOOSE i \in 1..Len(Digits) : Digits[i] = c) - 1

\* \s
IsSpace(c) == c \in {" ", "\t", "\n", "\r"}

\* int() of a run of decimal digits
RECURSIVE ToInt(_)
ToInt(ds) ==
    IF ds = <<>> THEN 0
    ELSE 10 * ToInt(SubSeq(ds, 1, Len(ds) - 1)) + DigitVal(ds[Len(ds)])

\* The literal lit stands in s at position pos; with ci, letters are compared
\* case-folded (lit is then written in lower case).
LitAt(s, pos, lit, ci) ==
    /\ pos + Len(lit) - 1 <= Len(s)
    /\ \A k \in 1..Len(lit) :
          (IF ci THEN Lower(s[pos + k - 1]) ELSE s[pos + k - 1]) = lit[k]

\* Length of the longest run of whitespace (\s+, \s* taken greedily) at pos.
RECURSIVE SpaceRun(_, _)
SpaceRun(s, pos) ==
    IF pos <= Len(s) /\ IsSpace(s[pos]) THEN 1 + SpaceRun(s, pos + 1) ELSE 0

\* Length of the longest run of digits (\d+) at pos.
RECURSIVE DigitRun(_, _)
DigitRun(s, pos) ==
    IF pos <= Len(s) /\ IsDigit(s[pos]) THEN 1 + DigitRun(s, pos + 1) ELSE 0

\* Where a greedy .* started at pos stops: the first newline, or past the end.
RECURSIVE LineEnd(_, _)
LineEnd(s, pos) ==
    IF pos > Len(s) \/ s[pos] = "\n" THEN pos ELSE LineEnd(s, pos + 1)

\* $ without re.MULTILINE: at the end, or before a final newline.
AtEnd(s, e) == e = Len(s) + 1 \/ (e = Len(s) /\ s[e] = "\n")

Max(S) == CHOOSE x \in S : \A y \in S : y <= x
Min(S) == CHOOSE x \in S : \A y \in S : x <= y

\* ------------------------------------------------------- Python values
\* An Optional[str]: None, or a string.
None == [st |-> "none", v |-> <<>>]
Str(s) == [st |-> "str", v |-> s]
\* The test as "is not None": '' counts as true.
Truthy_not_none(o) == o.st = "str"

\* Truth value of an Optional[str] in an if: None and '' are false.
Truthy(o) == o.st = "str" /\ o.v # <<>>

\* {attrKey: attrVal for (attrKey, attrVal) in attrs}: the last pair with a
\* key gives the key's value.
AttrDict(attrs) ==
    [k \in {attrs[i][1] : i \in 1..Len(attrs)} |->
        attrs[Max({i \in 1..Len(attrs) : attrs[i][1] = k})][2]]

\* ------------------------------------------------------------- constants
BASE_URL == <<"h", "t", "t", "p", "s", ":", "/", "/", "w", "w", "w", ".", "q", "u", "e", "e", "n", "c", "o", "n", "c", "e", "r", "t", "s", ".", "c", "o", "m">>
STARTING_URL == BASE_URL \o <<"/", "l", "i", "v", "e", "/", "q", "u", "e", "e", "n", ".", "h", "t", "m", "l">>
MARKER_CLASS == <<"l", "i", "s", "t", "-", "g", "r", "o", "u", "p", "-", "i", "t", "e", "m", " ", "l", "i", "s", "t", "-", "g", "r", "o", "u", "p", "-", "i", "t", "e", "m", "-", "a", "c", "t", "i", "o", "n">>
LitDetail == <<"/", "d", "e", "t", "a", "i", "l", "/", "l", "i", "v", "e", "/">>
LitLiveAt == <<" ", "l", "i", "v", "e", " ", "a", "t", " ", "t", "h", "e", " ">>
LitQueenOnTour == <<"q", "u", "e", "e", "n", " ", "o", "n", " ", "t", "o", "u", "r", ":">>
LitConcert == <<"c", "o", "n", "c", "e", "r", "t", ":">>

\* --------------------------------------------------- TourParser's patterns
\* _eventUrlRegex.match(href): ^/detail/live/\d+/ , ignoring case.
eventUrlRegex_match(href) ==
    /\ LitAt(href, 1, LitDetail, TRUE)
    /\ LET p == Len(LitDetail) + 1
           n == DigitRun(href, p)
       IN  n >= 1 /\ p + n <= Len(href) /\ href[p + n] = "/"

\* The pattern with the first two groups exchanged: month.day.year.
eventDataRegex_search_month_first(data) ==
    LET head == /\ Len(data) >= 11
                /\ \A k \in {1, 2, 4, 5, 7, 8, 9, 10} : IsDigit(data[k])
                /\ data[3] = "." /\ data[6] = "."
                /\ IsSpace(data[11])
        ws   == IF head
                THEN {w \in 1..SpaceRun(data, 11) : AtEnd(data, LineEnd(data, 11 + w))}
                ELSE {}
    IN  IF ws = {}
        THEN [ok |-> FALSE, day |-> <<>>, month |-> <<>>, year |-> <<>>, brief |-> <<>>]
        ELSE LET p == 11 + Max(ws)
             IN  [ok |-> TRUE,
                  day |-> SubSeq(data, 4, 5),
                  month |-> SubSeq(data, 1, 2),
                  year |-> SubSeq(data, 7, 10),
                  brief |-> SubSeq(data, p, LineEnd(data, p) - 1)]

\* _eventDataRegex.search(data):
\* ^(?P<day>\d{2})\.(?P<month>\d{2})\.(?P<year>\d{4})\s+(?P<brief>.*)$
\* The groups of the match, or ok = FALSE when there is none.
eventDataRegex_search(data) ==
    LET head == /\ Len(data) >= 11
                /\ \A k \in {1, 2, 4, 5, 7, 8, 9, 10} : IsDigit(data[k])
                /\ data[3] = "." /\ data[6] = "."
                /\ IsSpace(data[11])
        ws   == IF head
                THEN {w \in 1..SpaceRun(data, 11) : AtEnd(data, LineEnd(data, 11 + w))}
                ELSE {}
    IN  IF ws = {}
        THEN [ok |-> FALSE, day |-> <<>>, month |-> <<>>, year |-> <<>>, brief |-> <<>>]
        ELSE LET p == 11 + Max(ws)
             IN  [ok |-> TRUE,
                  day |-> SubSeq(data, 1, 2),
                  month |-> SubSeq(data, 4, 5),
                  year |-> SubSeq(data, 7, 10),
                  brief |-> SubSeq(data, p, LineEnd(data, p) - 1)]

\* The city group of _detailsRegex tried at position p:
\* .*?(?=\s+\() first, then .*$ ; the end of the group plus one, or 0.
CityEnd(s, p) ==
    LET lazy == {e \in p..LineEnd(s, p) :
                    /\ SpaceRun(s, e) >= 1
                    /\ e + SpaceRun(s, e) <= Len(s)
                    /\ s[e + SpaceRun(s, e)] = "("}
    IN  IF lazy # {} THEN Min(lazy)
        ELSE IF AtEnd(s, LineEnd(s, p)) THEN LineEnd(s, p)
        ELSE 0

\* _detailsRegex tried at start position i: the groups, or ok = FALSE.
DetailsAt(s, i) ==
    LET v0     == i + Len(LitLiveAt)
        commas == {c \in v0..Len(s) : s[c] = ","}
        c      == IF commas = {} THEN 0 ELSE Min(commas)
        ws     == IF c > v0
                  THEN {w \in 0..SpaceRun(s, c + 1) : CityEnd(s, c + 1 + w) # 0}
                  ELSE {}
    IN  IF ~LitAt(s, i, LitLiveAt, TRUE) \/ ws = {}
        THEN [ok |-> FALSE, venue |-> <<>>, city |-> <<>>]
        ELSE LET p == c + 1 + Max(ws)
             IN  [ok |-> TRUE,
                  venue |-> SubSeq(s, v0, c - 1),
                  city |-> SubSeq(s, p, CityEnd(s, p) - 1)]

\* _detailsRegex.search(title):
\* ' live at the (?P<venue>[^,]+),\s*(?P<city>.*?(?=\s+\()|.*$)', ignoring
\* case; the leftmost match.
detailsRegex_search(s) ==
    LET starts == {i \in 1..Len(s) : DetailsAt(s, i).ok}
    IN  IF starts = {} THEN [ok |-> FALSE, venue |-> <<>>, city |-> <<>>]
        ELSE DetailsAt(s, Min(starts))

\* The substitution made again on its own result: every leading prefix goes.
cleanupRegex_sub_all(s) ==
    LET strip(x) ==
            LET q == Len(LitQueenOnTour) + 1
                c == Len(LitConcert) + 1
            IN  IF LitAt(x, 1, LitQueenOnTour, TRUE) /\ SpaceRun(x, q) >= 1
                THEN SubSeq(x, q + SpaceRun(x, q), Len(x))
                ELSE IF LitAt(x, 1, LitConcert, TRUE) /\ SpaceRun(x, c) >= 1
                THEN SubSeq(x, c + SpaceRun(x, c), Len(x))
                ELSE x
    IN  strip(strip(s))

\* _cleanupRegex.sub('', s): ^(Queen on tour:\s+|Concert:\s+), ignoring case.
cleanupRegex_sub(s) ==
    LET q == Len(LitQueenOnTour) + 1
        c == Len(LitConcert) + 1
    IN  IF LitAt(s, 1, LitQueenOnTour, TRUE) /\ SpaceRun(s, q) >= 1
        THEN SubSeq(s, q + SpaceRun(s, q), Len(s))
        ELSE IF LitAt(s, 1, LitConcert, TRUE) /\ SpaceRun(s, c) >= 1
        THEN SubSeq(s, c + SpaceRun(s, c), Len(s))
        ELSE s

\* datetime(year, month, day) accepts the date (it raises ValueError otherwise).
IsLeap(y) == (y % 4 = 0 /\ y % 100 # 0) \/ y % 400 = 0
DaysInMonth(y, m) ==
    IF m = 2 THEN (IF IsLeap(y) THEN 29 ELSE 28)
    ELSE IF m \in {4, 6, 9, 11} THEN 30 ELSE 31
ValidDate(y, m, d) ==
    /\ 1 <= y /\ y <= 9999
    /\ 1 <= m /\ m <= 12
    /\ 1 <= d /\ d <= DaysInMonth(y, m)

\* ------------------------------------------------------------- inputs
\* The documents' content: attribute values, tag names and text chunks the
\* handlers are called with.
OtherClass == <<"l", "i", "s", "t", "-", "g", "r", "o", "u", "p", "-", "i", "t", "e", "m">>
LinkA == <<"/", "l", "i", "v", "e", "/", "a", ".", "h", "t", "m", "l">>
LinkB == <<"/", "l", "i", "v", "e", "/", "b", ".", "h", "t", "m", "l">>
HrefEvent == <<"/", "D", "e", "t", "a", "i", "l", "/", "l", "i", "v", "e", "/", "1", "2", "/", "x">>
HrefOther == <<"/", "d", "e", "t", "a", "i", "l", "/", "l", "i", "v", "e", "/", "x">>
TitleForum == <<"C", "o", "n", "c", "e", "r", "t", ":", " ", "Q", "u", "e", "e", "n", " ", "l", "i", "v", "e", " ", "a", "t", " ", "t", "h", "e", " ", "F", "o", "r", "u", "m", ",", " ", "I", "n", "g", "l", "e", "w", "o", "o", "d", " ", "(", "U", "S", "A", ")">>
TextWembley == <<"3", "1", ".", "0", "5", ".", "1", "9", "8", "6", " ", "a", "t", " ", "W", "e", "m", "b", "l", "e", "y", " ", "S", "t", "a", "d", "i", "u", "m">>
TextDay32 == <<"3", "2", ".", "0", "1", ".", "1", "9", "8", "0", " ", "x">>
TextMagic == <<"Q", "u", "e", "e", "n", " ", "o", "n", " ", "t", "o", "u", "r", ":", " ", "M", "a", "g", "i", "c">>

\* The attribute lists of the start-tags: with and without class, href and
\* title, in either order, with a repeated attribute and with an attribute
\* that has no value (HTMLParser gives it the value None).
ListingAttrLists ==
    {<<>>,
     <<<<"class", Str(MARKER_CLASS)>>, <<"href", Str(LinkA)>>>>,
     <<<<"href", Str(LinkB)>>, <<"class", Str(MARKER_CLASS)>>>>,
     <<<<"class", Str(MARKER_CLASS)>>>>,
     <<<<"class", Str(MARKER_CLASS)>>, <<"href", None>>>>,
     <<<<"class", Str(OtherClass)>>, <<"href", Str(LinkA)>>>>,
     <<<<"href", Str(LinkB)>>>>,
     <<<<"class", Str(MARKER_CLASS)>>, <<"class", Str(OtherClass)>>, <<"href", Str(LinkA)>>>>,
     <<<<"class", Str(MARKER_CLASS)>>, <<"href", Str(LinkA)>>, <<"href", Str(LinkB)>>>>}
TourAttrLists ==
    {<<>>,
     <<<<"href", Str(HrefEvent)>>, <<"title", Str(TitleForum)>>>>,
     <<<<"title", Str(TitleForum)>>, <<"href", Str(HrefEvent)>>>>,
     <<<<"href", Str(HrefEvent)>>, <<"title", Str(<<>>)>>>>,
     <<<<"href", Str(HrefEvent)>>>>,
     <<<<"href", Str(HrefOther)>>, <<"title", Str(TitleForum)>>>>,
     <<<<"href", None>>, <<"title", Str(TitleForum)>>>>,
     <<<<"href", Str(HrefEvent)>>, <<"href", Str(HrefOther)>>, <<"title", Str(TitleForum)>>>>}
Tags == {"a", "h1", "div"}
Texts == {TextWembley, TextDay32, TextMagic}
\* What requests.get comes back with: an HTTP status, or 0 for no response
\* within the timeout.
Outcomes == {0, 200, 404, 503}

\* -------------------------------------------------------------- state
VARIABLES
    pc,           \* where the script is: main, feedBase, loop, feedTour, write, done, error
    err,          \* the exception that ended the run, or "none"
    links,        \* baseParser.links
    i,            \* position of the for loop in links (1-based)
    tourName,     \* tourParser.tourName
    events,       \* tourParser.events
    eventTitle,   \* tourParser._eventTitle
    is_h1,        \* tourParser._is_h1
    file,         \* events.csv: untouched, open or closed, and its rows
    call,         \* the call made last, with its arguments
    headingText,  \* history: the last text seen in a heading with no title active
    pageHeadings, \* history: 0 no heading text on this page yet, 1 some, 2 replaced by another text
    anchorLen,    \* history: Len(events) at the last qualifying anchor start-tag
    anchorHits    \* history: date-matching chunks recorded since that start-tag

vars == <<pc, err, links, i, tourName, events, eventTitle, is_h1, file, call,
          headingText, pageHeadings, anchorLen, anchorHits>>
parserVars == <<tourName, events, eventTitle, is_h1>>
history == <<headingText, pageHeadings, anchorLen, anchorHits>>

Call(op, tag, attrs, data, status) ==
    [op |-> op, tag |-> tag, attrs |-> AttrDict(attrs), data |-> data, status |-> status]

\* An uncaught exception ends the run.
Raise(e) == pc' = "error" /\ err' = e

EventKeys ==
    <<"Tour Name", "Event Title", "Event Date", "Event Brief", "Event Venue", "Event City">>

Init ==
    /\ pc = "main"
    /\ err = "none"
    /\ links = <<>>
    /\ i = 1
    /\ tourName = None
    /\ events = <<>>
    /\ eventTitle = None
    /\ is_h1 = FALSE
    /\ file = [st |-> "untouched", rows |-> <<>>]
    /\ call = Call("init", "", <<>>, <<>>, 0)
    /\ headingText = None
    /\ pageHeadings = 0
    /\ anchorLen = 0
    /\ anchorHits = 0

\* ------------------------------------------------------------ get_response
\* resp.ok: the status is not a 4xx or 5xx.
resp_ok(status) == ~(400 <= status /\ status < 600)

\* get_response with the else branch lost: a response that is not OK is fed
\* to the parser like any other.
get_response_feeds_any(url, r, feedPc) ==
    /\ call' = Call("get_response", "", <<>>, url, r)
    /\ IF r = 0 THEN Raise("Timeout") ELSE pc' = feedPc /\ err' = err

\* get_response(url, parser): requests.get raises when the timeout passes;
\* an OK response is fed to the parser (feedPc), another raises HTTPError.
get_response(url, r, feedPc) ==
    /\ call' = Call("get_response", "", <<>>, url, r)
    /\ IF r = 0 THEN Raise("Timeout")
       ELSE IF resp_ok(r) THEN pc' = feedPc /\ err' = err
       ELSE Raise("HTTPError")

\* ------------------------------------------------------------ BaseParser
\* handle_starttag with the comparison lost: any anchor that has a class counts.
BaseParser_handle_starttag_any_class(tag, attrs) ==
    LET attrDict == AttrDict(attrs) IN
    IF tag = "a" /\ "class" \in DOMAIN attrDict
    THEN IF "href" \in DOMAIN attrDict
         THEN links' = Append(links, attrDict["href"]) /\ UNCHANGED <<pc, err>>
         ELSE Raise("KeyError") /\ links' = links
    ELSE UNCHANGED <<pc, err, links>>

BaseParser_handle_starttag(tag, attrs) ==
    LET attrDict == AttrDict(attrs) IN
    IF tag = "a" /\ "class" \in DOMAIN attrDict /\ attrDict["class"] = Str(MARKER_CLASS)
    THEN IF "href" \in DOMAIN attrDict
         THEN links' = Append(links, attrDict["href"]) /\ UNCHANGED <<pc, err>>
         ELSE Raise("KeyError") /\ links' = links
    ELSE UNCHANGED <<pc, err, links>>

\* ------------------------------------------------------------ TourParser
\* handle_starttag with the test of the href lost: any anchor with an href
\* and a title sets the event title.
TourParser_handle_starttag_any_href(tag, attrs) ==
    LET attrDict == AttrDict(attrs) IN
    IF tag = "a"
    THEN /\ is_h1' = is_h1
         /\ IF "href" \in DOMAIN attrDict
            THEN IF "title" \in DOMAIN attrDict
                 THEN eventTitle' = attrDict["title"] /\ UNCHANGED <<pc, err>>
                 ELSE Raise("KeyError") /\ eventTitle' = eventTitle
            ELSE UNCHANGED <<pc, err, eventTitle>>
    ELSE IF tag = "h1"
    THEN is_h1' = TRUE /\ UNCHANGED <<pc, err, eventTitle>>
    ELSE UNCHANGED <<pc, err, eventTitle, is_h1>>

TourParser_handle_starttag(tag, attrs) ==
    LET attrDict == AttrDict(attrs) IN
    IF tag = "a"
    THEN /\ is_h1' = is_h1
         /\ IF "href" \in DOMAIN attrDict
            THEN IF attrDict["href"] = None
                 THEN Raise("TypeError") /\ eventTitle' = eventTitle
                 ELSE IF eventUrlRegex_match(attrDict["href"].v)
                 THEN IF "title" \in DOMAIN attrDict
                      THEN eventTitle' = attrDict["title"] /\ UNCHANGED <<pc, err>>
                      ELSE Raise("KeyError") /\ eventTitle' = eventTitle
                 ELSE UNCHANGED <<pc, err, eventTitle>>
            ELSE UNCHANGED <<pc, err, eventTitle>>
    ELSE IF tag = "h1"
    THEN is_h1' = TRUE /\ UNCHANGED <<pc, err, eventTitle>>
    ELSE UNCHANGED <<pc, err, eventTitle, is_h1>>

\* handle_endtag that leaves the event title as it is.
TourParser_handle_endtag_keeps_title(tag) ==
    IF tag = "h1" THEN is_h1' = FALSE /\ eventTitle' = eventTitle
    ELSE UNCHANGED <<eventTitle, is_h1>>

TourParser_handle_endtag(tag) ==
    IF tag = "a" THEN eventTitle' = None /\ is_h1' = is_h1
    ELSE IF tag = "h1" THEN is_h1' = FALSE /\ eventTitle' = eventTitle
    ELSE UNCHANGED <<eventTitle, is_h1>>

\* The record with venue and city left out when the title has no details.
EventRecord_no_details(name, title, m, det) ==
    LET rec == ("Tour Name" :> cleanupRegex_sub(name)) @@
               ("Event Title" :> cleanupRegex_sub(title)) @@
               ("Event Date" :> [year |-> ToInt(m.year), month |-> ToInt(m.month),
                                 day |-> ToInt(m.day)]) @@
               ("Event Brief" :> m.brief)
    IN  IF det.ok
        THEN rec @@ ("Event Venue" :> det.venue) @@ ("Event City" :> det.city)
        ELSE rec

\* The dict appended to events.
EventRecord(name, title, m, det) ==
    ("Tour Name" :> cleanupRegex_sub(name)) @@
    ("Event Title" :> cleanupRegex_sub(title)) @@
    ("Event Date" :> [year |-> ToInt(m.year), month |-> ToInt(m.month), day |-> ToInt(m.day)]) @@
    ("Event Brief" :> m.brief) @@
    ("Event Venue" :> IF det.ok THEN det.venue ELSE <<>>) @@
    ("Event City" :> IF det.ok THEN det.city ELSE <<>>)

\* self.events = [record] in place of the append
events_assign(rec) == <<rec>>

\* self.events.append(record)
events_append(rec) == Append(events, rec)

\* the ValueError swallowed: the chunk is skipped and the parse goes on
datetime_skipped == UNCHANGED <<pc, err, events>>

\* datetime(year, month, day) raises ValueError; nothing is appended
datetime_raises == Raise("ValueError") /\ events' = events

\* the test of the match lost: a chunk with no date is recorded with empty
\* date fields
no_match_recorded(data) ==
    /\ events' = Append(events,
           EventRecord(tourName.v, eventTitle.v,
                       eventDataRegex_search(data), detailsRegex_search(eventTitle.v)))
    /\ UNCHANGED <<pc, err>>

\* if eventDataMatches: is false; the chunk is ignored
no_match(data) == UNCHANGED <<pc, err, events>>

\* the heading text kept only if there is none yet
tourName_first(data) == IF tourName = None THEN Str(data) ELSE tourName

\* self.tourName = data
tourName_assign(data) == Str(data)

\* handle_data with "if self._is_h1" in place of "elif": text in a heading
\* is the tour name also while an event title is active.
TourParser_handle_data_if_h1(data) ==
    /\ tourName' = IF is_h1 THEN Str(data) ELSE tourName
    /\ IF Truthy(eventTitle)
       THEN LET eventDataMatches == eventDataRegex_search(data)
                detailsMatches   == detailsRegex_search(eventTitle.v)
            IN  IF eventDataMatches.ok
                THEN IF tourName = None
                     THEN Raise("TypeError") /\ events' = events
                     ELSE IF ~ValidDate(ToInt(eventDataMatches.year),
                                        ToInt(eventDataMatches.month),
                                        ToInt(eventDataMatches.day))
                     THEN datetime_raises
                     ELSE /\ events' = events_append(
                                 EventRecord(tourName.v, eventTitle.v,
                                             eventDataMatches, detailsMatches))
                          /\ UNCHANGED <<pc, err>>
                ELSE no_match(data)
       ELSE UNCHANGED <<pc, err, events>>

TourParser_handle_data(data) ==
    IF Truthy(eventTitle)
    THEN LET eventDataMatches == eventDataRegex_search(data)
             detailsMatches   == detailsRegex_search(eventTitle.v)
         IN  /\ tourName' = tourName
             /\ IF eventDataMatches.ok
                THEN IF tourName = None
                     THEN Raise("TypeError") /\ events' = events
                     ELSE IF ~ValidDate(ToInt(eventDataMatches.year),
                                        ToInt(eventDataMatches.month),
                                        ToInt(eventDataMatches.day))
                     THEN datetime_raises
                     ELSE /\ events' = events_append(
                                 EventRecord(tourName.v, eventTitle.v,
                                             eventDataMatches, detailsMatches))
                          /\ UNCHANGED <<pc, err>>
                ELSE no_match(data)
    ELSE IF is_h1
    THEN tourName' = tourName_assign(data) /\ UNCHANGED <<pc, err, events>>
    ELSE UNCHANGED <<pc, err, tourName, events>>

\* ------------------------------------------------------------- main
\* parsedBase = get_response(STARTING_URL, baseParser)
GetListing ==
    /\ pc = "main"
    /\ \E r \in Outcomes : get_response(STARTING_URL, r, "feedBase")
    /\ UNCHANGED <<links, i, parserVars, file, history>>

\* baseParser.feed: a start-tag of the listing page
BaseStartTag ==
    /\ pc = "feedBase"
    /\ \E tag \in {"a", "div"}, attrs \in ListingAttrLists :
          /\ BaseParser_handle_starttag(tag, attrs)
          /\ call' = Call("starttag", tag, attrs, <<>>, 0)
    /\ Len(links') <= MaxLinks
    /\ UNCHANGED <<i, parserVars, file, history>>

\* baseParser.feed: an end-tag or text, which HTMLParser's own handlers ignore
BaseOther ==
    /\ pc = "feedBase"
    /\ \/ \E tag \in {"a", "div"} : call' = Call("endtag", tag, <<>>, <<>>, 0)
       \/ \E data \in Texts : call' = Call("data", "", <<>>, data, 0)
    /\ UNCHANGED <<pc, err, links, i, parserVars, file, history>>

\* baseParser.feed returns; the for loop over parsedBase.links starts
BaseFeedDone ==
    /\ pc = "feedBase"
    /\ pc' = "loop"
    /\ i' = 1
    /\ call' = Call("feed_done", "", <<>>, <<>>, 0)
    /\ UNCHANGED <<err, links, parserVars, file, history>>

\* The loop with a new TourParser made for every page.
GetTour_fresh_parser ==
    /\ pc = "loop"
    /\ i <= Len(links)
    /\ IF links[i] = None
       THEN Raise("TypeError") /\ call' = Call("concat", "", <<>>, BASE_URL, 0)
       ELSE \E r \in Outcomes : get_response(BASE_URL \o links[i].v, r, "feedTour")
    /\ pageHeadings' = IF pc' = "feedTour" THEN 0 ELSE pageHeadings
    /\ tourName' = None
    /\ events' = <<>>
    /\ eventTitle' = None
    /\ is_h1' = FALSE
    /\ UNCHANGED <<links, i, file, headingText, anchorLen, anchorHits>>

\* for tourLink in parsedBase.links: get_response(BASE_URL+tourLink, tourParser)
GetTour ==
    /\ pc = "loop"
    /\ i <= Len(links)
    /\ IF links[i] = None
       THEN Raise("TypeError") /\ call' = Call("concat", "", <<>>, BASE_URL, 0)
       ELSE \E r \in Outcomes : get_response(BASE_URL \o links[i].v, r, "feedTour")
    /\ pageHeadings' = IF pc' = "feedTour" THEN 0 ELSE pageHeadings
    /\ UNCHANGED <<links, i, parserVars, file, headingText, anchorLen, anchorHits>>

\* a start-tag with a matching href, as handle_starttag's comment describes it
Qualifying(tag, attrs) ==
    /\ tag = "a"
    /\ \E k \in 1..Len(attrs) : attrs[k][1] = "href"
    /\ LET href == attrs[Max({k \in 1..Len(attrs) : attrs[k][1] = "href"})][2]
       IN  href.st = "str" /\ eventUrlRegex_match(href.v)

\* tourParser.feed: a start-tag of the tour page
TourStartTag ==
    /\ pc = "feedTour"
    /\ \E tag \in Tags, attrs \in TourAttrLists :
          /\ tag # "a" => attrs = <<>>
          /\ TourParser_handle_starttag(tag, attrs)
          /\ call' = Call("starttag", tag, attrs, <<>>, 0)
          /\ LET opened == Qualifying(tag, attrs) /\ pc' # "error"
             IN  /\ anchorLen' = IF opened THEN Len(events) ELSE anchorLen
                 /\ anchorHits' = IF opened THEN 0 ELSE anchorHits
    /\ UNCHANGED <<links, i, tourName, events, file, headingText, pageHeadings>>

\* tourParser.feed: an end-tag of the tour page
TourEndTag ==
    /\ pc = "feedTour"
    /\ \E tag \in Tags :
          /\ TourParser_handle_endtag(tag)
          /\ call' = Call("endtag", tag, <<>>, <<>>, 0)
    /\ UNCHANGED <<pc, err, links, i, tourName, events, file, history>>

\* tourParser.feed: a text chunk of the tour page
TourData ==
    /\ pc = "feedTour"
    /\ \E data \in Texts :
          /\ TourParser_handle_data(data)
          /\ call' = Call("data", "", <<>>, data, 0)
          /\ headingText' = IF is_h1 /\ ~Truthy(eventTitle) THEN Str(data) ELSE headingText
          /\ pageHeadings' =
                IF is_h1 /\ ~Truthy(eventTitle)
                THEN (IF pageHeadings = 0 THEN 1
                      ELSE IF Str(data) # headingText THEN 2 ELSE pageHeadings)
                ELSE pageHeadings
          /\ anchorHits' =
                IF Truthy(eventTitle) /\ eventDataRegex_search(data).ok /\ pc' # "error"
                THEN anchorHits + 1 ELSE anchorHits
    /\ Len(events') <= MaxEvents
    /\ UNCHANGED <<links, i, eventTitle, is_h1, file, anchorLen>>

\* The loop stepping over a link: every second page is left out.
TourFeedDone_skips ==
    /\ pc = "feedTour"
    /\ pc' = "loop"
    /\ i' = i + 2
    /\ call' = Call("feed_done", "", <<>>, <<>>, 0)
    /\ UNCHANGED <<err, links, parserVars, file, history>>

\* tourParser.feed returns; the loop goes on to the next link
TourFeedDone ==
    /\ pc = "feedTour"
    /\ pc' = "loop"
    /\ i' = i + 1
    /\ call' = Call("feed_done", "", <<>>, <<>>, 0)
    /\ UNCHANGED <<err, links, parserVars, file, history>>

\* with open('events.csv', 'w', newline='') as f: the file is created or emptied
OpenFile ==
    /\ pc = "loop"
    /\ i > Len(links)
    /\ pc' = "write"
    /\ file' = [st |-> "open", rows |-> <<>>]
    /\ call' = Call("open", "", <<>>, <<>>, 0)
    /\ UNCHANGED <<err, links, i, parserVars, history>>

\* str() of a datetime at midnight
Pad(n, w) == [k \in 1..w |-> Digits[((n \div (10 ^ (w - k))) % 10) + 1]]
DateStr(d) ==
    Pad(d.year, 4) \o <<"-">> \o Pad(d.month, 2) \o <<"-">> \o Pad(d.day, 2)
        \o <<" ", "0", "0", ":", "0", "0", ":", "0", "0">>

\* The fields DictWriter writes for one record, in the header's order.
CsvRow(rec) ==
    [k \in 1..Len(EventKeys) |->
        IF EventKeys[k] = "Event Date" THEN DateStr(rec[EventKeys[k]]) ELSE rec[EventKeys[k]]]

\* The with block without writeheader(): the rows are the records alone.
WriteCsv_no_header ==
    /\ pc = "write"
    /\ IF events = <<>>
       THEN Raise("IndexError") /\ file' = [st |-> "closed", rows |-> <<>>]
       ELSE /\ pc' = "done" /\ err' = err
            /\ file' = [st |-> "closed",
                        rows |-> [k \in 1..Len(events) |-> CsvRow(events[k])]]
    /\ call' = Call("write", "", <<>>, <<>>, 0)
    /\ UNCHANGED <<links, i, parserVars, history>>

\* DictWriter(f, tourParser.events[0].keys()); writeheader(); writerows(events);
\* leaving the with block closes the file, also when events[0] raises.
WriteCsv ==
    /\ pc = "write"
    /\ IF events = <<>>
       THEN Raise("IndexError") /\ file' = [st |-> "closed", rows |-> <<>>]
       ELSE /\ pc' = "done" /\ err' = err
            /\ file' = [st |-> "closed",
                        rows |-> <<EventKeys>> \o [k \in 1..Len(events) |-> CsvRow(events[k])]]
    /\ call' = Call("write", "", <<>>, <<>>, 0)
    /\ UNCHANGED <<links, i, parserVars, history>>

Next ==
    \/ GetListing
    \/ BaseStartTag
    \/ BaseOther
    \/ BaseFeedDone
    \/ GetTour
    \/ TourStartTag
    \/ TourEndTag
    \/ TourData
    \/ TourFeedDone
    \/ OpenFile
    \/ WriteCsv

Spec == Init /\ [][Next]_vars

\* The script is one thread that never waits on anything but requests.get,
\* which returns or raises; a page is a finite string, so feed returns.
\* Hence each statement of the script, when reached, is executed.
Fairness ==
    /\ WF_vars(GetListing)
    /\ WF_vars(BaseFeedDone)
    /\ WF_vars(GetTour)
    /\ WF_vars(TourFeedDone)
    /\ WF_vars(OpenFile)
    /\ WF_vars(WriteCsv)
SpecFair == Spec /\ Fairness

\* The listing page alone: the run up to the start of the loop.
NextListing == GetListing \/ BaseStartTag \/ BaseOther \/ BaseFeedDone
SpecListing == Init /\ [][NextListing]_vars

\* The tour pages alone: the run from the start of the loop, after a listing
\* page that gave two links.
InitTour ==
    /\ pc = "loop"
    /\ err = "none"
    /\ links = <<Str(LinkA), Str(LinkB)>>
    /\ i = 1
    /\ tourName = None
    /\ events = <<>>
    /\ eventTitle = None
    /\ is_h1 = FALSE
    /\ file = [st |-> "untouched", rows |-> <<>>]
    /\ call = Call("feed_done", "", <<>>, <<>>, 0)
    /\ headingText = None
    /\ pageHeadings = 0
    /\ anchorLen = 0
    /\ anchorHits = 0
NextTour ==
    GetTour \/ TourStartTag \/ TourEndTag \/ TourData \/ TourFeedDone \/ OpenFile \/ WriteCsv
SpecTour == InitTour /\ [][NextTour]_vars

\* ------------------------------------------------- one parser on its own
\* A TourParser that has been fed a heading before (or nothing yet), fed the
\* start-tag of a qualifying anchor and then text chunks: heading texts,
\* titles and chunks with the prefixes, the details and the dates in their
\* different shapes.
NameWorks == <<"Q", "U", "E", "E", "N", " ", "O", "N", " ", "T", "O", "U", "R", ":", " ", " ", "C", "o", "n", "c", "e", "r", "t", ":", " ", "W", "o", "r", "k", "s">>
NameDoubled == <<"Q", "u", "e", "e", "n", " ", "o", "n", " ", "t", "o", "u", "r", ":", " ", "Q", "u", "e", "e", "n", " ", "o", "n", " ", "t", "o", "u", "r", ":", " ", "J", "a", "z", "z">>
NameLater == <<"J", "a", "z", "z", ",", " ", "Q", "u", "e", "e", "n", " ", "o", "n", " ", "t", "o", "u", "r", ":", " ", "1", "9", "7", "9">>
NameNoSpace == <<"C", "o", "n", "c", "e", "r", "t", ":", "L", "i", "v", "e">>
TitleHydePark == <<"Q", "u", "e", "e", "n", " ", "a", "t", " ", "H", "y", "d", "e", " ", "P", "a", "r", "k">>
TitleRainbow == <<"C", "o", "n", "c", "e", "r", "t", ":", " ", "C", "o", "n", "c", "e", "r", "t", ":", " ", "Q", "u", "e", "e", "n", " ", "L", "I", "V", "E", " ", "A", "T", " ", "T", "H", "E", " ", "R", "a", "i", "n", "b", "o", "w", ",", "L", "o", "n", "d", "o", "n">>
TitleBudokan == <<"Q", "u", "e", "e", "n", " ", "l", "i", "v", "e", " ", "a", "t", " ", "t", "h", "e", " ", "B", "u", "d", "o", "k", "a", "n">>
TextCrazy == <<"0", "5", ".", "1", "2", ".", "1", "9", "7", "9", " ", " ", "C", "r", "a", "z", "y", " ", "t", "o", "u", "r">>
TextShort == <<"5", ".", "1", "2", ".", "1", "9", "7", "9", " ", "x">>
TextMonth13 == <<"1", "2", ".", "1", "3", ".", "1", "9", "9", "9", " ", "x">>
TextNoBrief == <<"3", "1", ".", "0", "5", ".", "1", "9", "8", "6">>
TextTrailing == <<"0", "1", ".", "0", "2", ".", "1", "9", "8", "0", " ", "T", "o", "k", "y", "o", "\n">>
TextTwoLines == <<"0", "1", ".", "0", "2", ".", "1", "9", "8", "0", " ", "T", "o", "k", "y", "o", "\n", "J", "a", "p", "a", "n">>
Names == {TextMagic, NameWorks, NameDoubled, NameLater, NameNoSpace}
Titles == {TitleForum, TitleHydePark, TitleRainbow, TitleBudokan, <<>>}
RecordTexts ==
    {TextWembley, TextCrazy, TextDay32, TextMonth13, TextShort, TextNoBrief,
     TextTrailing, TextTwoLines, TextMagic}

InitRecord ==
    /\ pc = "feedTour"
    /\ err = "none"
    /\ links = <<Str(LinkA)>>
    /\ i = 1
    /\ tourName \in {None} \cup {Str(n) : n \in Names}
    /\ events = <<>>
    /\ eventTitle = None
    /\ is_h1 \in BOOLEAN
    /\ file = [st |-> "untouched", rows |-> <<>>]
    /\ call = Call("init", "", <<>>, <<>>, 0)
    /\ headingText = tourName
    /\ pageHeadings = IF tourName = None THEN 0 ELSE 1
    /\ anchorLen = 0
    /\ anchorHits = 0

\* feed: the start-tag of a qualifying anchor with a title
RecordStartTag ==
    /\ pc = "feedTour"
    /\ call.op = "init"
    /\ \E title \in Titles :
          LET attrs == <<<<"href", Str(HrefEvent)>>, <<"title", Str(title)>>>>
          IN  /\ TourParser_handle_starttag("a", attrs)
              /\ call' = Call("starttag", "a", attrs, <<>>, 0)
    /\ anchorLen' = Len(events)
    /\ anchorHits' = 0
    /\ UNCHANGED <<links, i, tourName, events, file, headingText, pageHeadings>>

\* feed: a text chunk after the start-tag
RecordData ==
    /\ pc = "feedTour"
    /\ call.op \in {"starttag", "data"}
    /\ \E data \in RecordTexts :
          /\ TourParser_handle_data(data)
          /\ call' = Call("data", "", <<>>, data, 0)
          /\ headingText' = IF is_h1 /\ ~Truthy(eventTitle) THEN Str(data) ELSE headingText
          /\ pageHeadings' =
                IF is_h1 /\ ~Truthy(eventTitle)
                THEN (IF pageHeadings = 0 THEN 1
                      ELSE IF Str(data) # headingText THEN 2 ELSE pageHeadings)
                ELSE pageHeadings
          /\ anchorHits' =
                IF Truthy(eventTitle) /\ eventDataRegex_search(data).ok /\ pc' # "error"
                THEN anchorHits + 1 ELSE anchorHits
    /\ Len(events') <= MaxEvents
    /\ UNCHANGED <<links, i, eventTitle, is_h1, file, anchorLen>>

NextRecord == RecordStartTag \/ RecordData
SpecRecord == InitRecord /\ [][NextRecord]_vars

\* ------------------------------------------------------------ properties
Last(seq) == seq[Len(seq)]

\* The step is a call of a TourParser handler / of BaseParser.handle_starttag.
TourCall(op) == pc = "feedTour" /\ call'.op = op
BaseStartCall == pc = "feedBase" /\ call'.op = "starttag"

\* The step is a text chunk that matches the date pattern while an event
\* title is active.
ActiveDateChunk ==
    /\ TourCall("data")
    /\ Truthy(eventTitle)
    /\ eventDataRegex_search(call'.data).ok

\* An uncaught exception is the end of the run: nothing is fetched, parsed or
\* written after it.
ErrorIsFinal == pc = "error" => UNCHANGED vars

\* C1: a start-tag of the listing page appends its href to links exactly when
\* it is an anchor whose class is the marker string (and it has an href); every
\* other step leaves links as it is, so links, empty at the start, is the
\* hrefs of the marker anchors in document order, duplicates kept.
C1_LinksAreMarkerHrefs ==
    /\ links = <<>>
    /\ [][IF /\ BaseStartCall
             /\ call'.tag = "a"
             /\ "class" \in DOMAIN call'.attrs
             /\ call'.attrs["class"] = Str(MARKER_CLASS)
             /\ "href" \in DOMAIN call'.attrs
          THEN links' = Append(links, call'.attrs["href"])
          ELSE links' = links]_vars

\* C1's case: two marker anchors in the order LinkB, LinkA, with an anchor of
\* another class or a non-anchor tag fed last.
C1_Witness ==
    /\ pc = "feedBase"
    /\ links = <<Str(LinkB), Str(LinkA)>>
    /\ call.op = "starttag"
    /\ ~(call.tag = "a" /\ "class" \in DOMAIN call.attrs
            /\ call.attrs["class"] = Str(MARKER_CLASS))

\* C2: an anchor start-tag of the listing page without an href or without a
\* class raises nothing and leaves links unchanged.
C2_AnchorWithoutHrefOrClassSkipped ==
    [][(/\ BaseStartCall
        /\ call'.tag = "a"
        /\ ("href" \notin DOMAIN call'.attrs \/ "class" \notin DOMAIN call'.attrs))
       => (pc' = "feedBase" /\ err' = "none" /\ links' = links)]_vars

\* C3: events changes only in a text chunk under an active title that matches
\* the date pattern, and such a step appends exactly one record at the end.
C3_EveryActiveDateChunkAppends ==
    [][/\ events' # events => ActiveDateChunk
       /\ ActiveDateChunk =>
             (Len(events') = Len(events) + 1 /\ SubSeq(events', 1, Len(events)) = events)]_vars

\* C3 as amended: events changes only in a text chunk under an active
\* (non-empty) title that matches the date pattern; a change is one record
\* appended at the end, and such a chunk appends it unless the call raises
\* (an invalid date, or no tour name yet), which leaves events unchanged.
C3_EventsOnlyAppendedByActiveDateChunk ==
    [][/\ events' # events => ActiveDateChunk
       /\ events' # events =>
             (Len(events') = Len(events) + 1 /\ SubSeq(events', 1, Len(events)) = events)
       /\ (ActiveDateChunk /\ pc' # "error") => Len(events') = Len(events) + 1
       /\ (ActiveDateChunk /\ pc' = "error") => events' = events]_vars

\* C3's case: a date chunk under an active title has just been recorded after
\* an earlier record, which is still in place.
C3_Witness ==
    /\ pc = "feedTour"
    /\ call.op = "data"
    /\ Truthy(eventTitle)
    /\ eventDataRegex_search(call.data).ok
    /\ Len(events) = 2
    /\ events[2]["Event Brief"] = eventDataRegex_search(call.data).brief

\* C4: when the end-tag of a qualifying anchor comes, exactly one record has
\* been appended since its start-tag.
C4_OneRecordPerAnchor ==
    [][(TourCall("endtag") /\ call'.tag = "a" /\ eventTitle # None)
       => Len(events) - anchorLen = 1]_vars

\* C4 as amended: a record is created once per date-matching text chunk that
\* is recorded while the anchor's title is active, so a qualifying anchor
\* element has as many records as it has such chunks: none, one or several.
C4_OneRecordPerDateChunk ==
    eventTitle # None => Len(events) - anchorLen = anchorHits

\* C4's case: two date chunks inside one qualifying anchor gave two records.
C4_Witness ==
    /\ pc = "feedTour"
    /\ eventTitle # None
    /\ anchorHits = 2
    /\ Len(events) - anchorLen = 2

\* C5: a TourParser handler raises only for a numerically invalid date.
C5_ParserRaisesOnlyOnInvalidDate ==
    (pc = "error" /\ call.op \in {"starttag", "endtag", "data"}) => err = "ValueError"

\* C6: a date chunk under an active title whose digits are no calendar date
\* ends the run in an error: no record is appended, the file is not touched,
\* and nothing happens after the error.
C6_InvalidDateIsFatal ==
    [][/\ (/\ ActiveDateChunk
           /\ LET m == eventDataRegex_search(call'.data)
              IN  ~ValidDate(ToInt(m.year), ToInt(m.month), ToInt(m.day)))
          => (/\ pc' = "error"
              /\ err' \in {"ValueError", "TypeError"}
              /\ events' = events
              /\ file' = file
              /\ file.st = "untouched")
       /\ ErrorIsFinal]_vars

\* C6's case: day 32 raised ValueError on the second page, after a record of
\* the first page.
C6_Witness ==
    /\ pc = "error"
    /\ err = "ValueError"
    /\ call.data = TextDay32
    /\ i = 2
    /\ Len(events) >= 1
    /\ file.st = "untouched"

\* C7: a fetch that times out or returns a 4xx or 5xx status ends the run in
\* an error: nothing is fed to a parser, the file is not touched, and nothing
\* happens after the error.
C7_FailedFetchAborts ==
    [][/\ (call'.op = "get_response" /\ (call'.status = 0 \/ call'.status >= 400))
          => (/\ pc' = "error"
              /\ err' \in {"Timeout", "HTTPError"}
              /\ links' = links
              /\ parserVars' = parserVars
              /\ file' = file
              /\ file.st = "untouched")
       /\ ErrorIsFinal]_vars

\* C7's case: the fetch of the second tour page failed after events were
\* collected from the first.
C7_Witness ==
    /\ pc = "error"
    /\ err = "HTTPError"
    /\ call.op = "get_response"
    /\ i = 2
    /\ Len(events) >= 1
    /\ file.st = "untouched"

\* C8: with no events collected after all pages, the run fails at the
\* serialization step and events.csv is neither created nor written.
C8_NoFileWithoutEvents ==
    (events = <<>> /\ call.op \in {"open", "write"})
        => (pc # "done" /\ file.st = "untouched")

\* C9: the Tour Name of a record is the cleaned text of the last text chunk
\* seen in a heading while no event title was active, and tourName is that
\* text alone.
C9_TourNameIsLastHeadingText ==
    [][/\ events' # events =>
             (/\ headingText # None
              /\ Last(events')["Tour Name"] = cleanupRegex_sub(headingText.v))
       /\ tourName' = headingText']_vars

\* C9's case: the first record of the run, made after two different heading
\* texts on its page.
C9_Witness ==
    /\ pc = "feedTour"
    /\ call.op = "data"
    /\ Truthy(eventTitle)
    /\ eventDataRegex_search(call.data).ok
    /\ Len(events) = 1
    /\ pageHeadings = 2
    /\ events[1]["Tour Name"] = cleanupRegex_sub(headingText.v)

\* C10: the start of a page's parse changes neither tourName nor events;
\* events only ever grows at its end; and a record made on a page before any
\* heading text of that page carries the tour name the page started with.
C10_NoResetBetweenPages ==
    [][/\ call'.op = "get_response" => (tourName' = tourName /\ events' = events)
       /\ Len(events') >= Len(events)
       /\ SubSeq(events', 1, Len(events)) = events
       /\ (events' # events /\ pageHeadings = 0) =>
             (/\ tourName # None
              /\ tourName' = tourName
              /\ Last(events')["Tour Name"] = cleanupRegex_sub(tourName.v))]_vars

\* C10's case: on the second page, before any heading text of that page, a
\* record is added to the first page's record under the first page's name.
C10_Witness ==
    /\ pc = "feedTour"
    /\ i = 2
    /\ pageHeadings = 0
    /\ call.op = "data"
    /\ Truthy(eventTitle)
    /\ eventDataRegex_search(call.data).ok
    /\ Len(events) = 2
    /\ events[2]["Tour Name"] = events[1]["Tour Name"]

\* C11: a tour page is fetched only when the parse before it has returned,
\* and its url is BASE_URL + the link at the loop's position; the position
\* moves one link at a time, at the end of a page's parse, over a list of
\* links that no longer changes; a record is appended, at the end, only during
\* the parse of the current page; and the file's rows are the header and
\* then the records in the order of events.
C11_PagesInLinkOrder ==
    [][/\ (pc = "loop" /\ call'.op = "get_response") =>
             (/\ call.op = "feed_done"
              /\ call'.data = BASE_URL \o links[i].v)
       /\ i' # i => (i' = i + 1 /\ pc = "feedTour" /\ call'.op = "feed_done")
       /\ links' # links => pc = "feedBase"
       /\ events' # events =>
             (pc = "feedTour" /\ SubSeq(events', 1, Len(events)) = events
                 /\ Len(events') = Len(events) + 1)
       /\ pc' = "done" =>
             (/\ i = Len(links) + 1
              /\ file'.rows = <<EventKeys>> \o [k \in 1..Len(events) |-> CsvRow(events[k])])]_vars

\* C11's case: the listing page gave the same link twice, both fetches and
\* parses were made, and the two records collected were written in order.
C11_Witness ==
    /\ pc = "done"
    /\ links = <<Str(LinkA), Str(LinkA)>>
    /\ i = 3
    /\ Len(events) = 2
    /\ Len(file.rows) = 3
    /\ file.rows[3] = CsvRow(events[2])

\* The step is a fetch that fails, or a statement of the script or a handler
\* call that raises.
FailingStep == pc' = "error" /\ pc # "error"

\* C12: the run ends, in pc = "done" (success) or pc = "error".  It ends in
\* success only with no exception raised, every link fetched and parsed and
\* at least one record collected, and then the file holds the header and one
\* row per record; once every page is parsed with a record collected and the
\* file opened, the write succeeds; the file is opened once and closed once;
\* a failing step ends the run in an error from which nothing more happens.
C12_RunTerminates ==
    /\ <>(pc \in {"done", "error"})
    /\ [](pc = "done" =>
             (/\ err = "none"
              /\ i = Len(links) + 1
              /\ events # <<>>
              /\ file.st = "closed"
              /\ Len(file.rows) = Len(events) + 1
              /\ file.rows[1] = EventKeys
              /\ \A k \in 1..Len(events) : file.rows[k + 1] = CsvRow(events[k])))
    /\ [](pc = "error" => err # "none")
    /\ [][/\ (pc = "write" /\ events # <<>>) => pc' = "done"
          /\ (pc = "write" /\ events = <<>>) => FailingStep
          /\ (call'.op = "get_response" /\ ~(call'.status # 0 /\ resp_ok(call'.status)))
                => FailingStep
          /\ file' # file =>
                \/ file.st = "untouched" /\ file'.st = "open"
                \/ file.st = "open" /\ file'.st = "closed"
          /\ pc \in {"done", "error"} => UNCHANGED vars]_vars

\* C12's case: a run that succeeded after two pages, with the file written.
C12_Witness ==
    /\ pc = "done"
    /\ err = "none"
    /\ i = 3
    /\ Len(events) = 2
    /\ file.st = "closed"
    /\ file.rows[1] = EventKeys

\* C13: a record appended has all six keys, Event Venue and Event City among
\* them, and these are strings: the venue and city groups of the details pattern searched in the
\* active title as the start-tag gave it, and both empty when the pattern
\* does not match (no ' live at the ', or no comma after the venue).
C13_VenueAndCityAlwaysStrings ==
    [][events' # events =>
          LET rec   == Last(events')
              title == eventTitle.v
              det   == detailsRegex_search(title)
          IN  /\ DOMAIN rec = {EventKeys[k] : k \in 1..Len(EventKeys)}
              /\ det.ok => (rec["Event Venue"] = det.venue /\ rec["Event City"] = det.city)
              /\ ~det.ok => (rec["Event Venue"] = <<>> /\ rec["Event City"] = <<>>)
              /\ title = TitleForum =>
                    /\ rec["Event Venue"] = <<"F", "o", "r", "u", "m">>
                    /\ rec["Event City"] = <<"I", "n", "g", "l", "e", "w", "o", "o", "d">>
              /\ title = TitleRainbow =>
                    /\ rec["Event Venue"] = <<"R", "a", "i", "n", "b", "o", "w">>
                    /\ rec["Event City"] = <<"L", "o", "n", "d", "o", "n">>
              /\ title \in {TitleHydePark, TitleBudokan} =>
                    (rec["Event Venue"] = <<>> /\ rec["Event City"] = <<>>)]_vars

\* C13's case: a record made under a title the details pattern does not
\* match, with both fields empty.
C13_Witness ==
    /\ call.op = "data"
    /\ eventTitle = Str(TitleBudokan)
    /\ Len(events) = 1
    /\ events[1]["Event Venue"] = <<>>
    /\ events[1]["Event City"] = <<>>
    /\ events[1]["Event Title"] = TitleBudokan

\* The chunk has the form DD.MM.YYYY, whitespace, remainder; the remainder is
\* what follows the whitespace.
HasDateForm(data) ==
    /\ Len(data) >= 11
    /\ \A k \in {1, 2, 4, 5, 7, 8, 9, 10} : data[k] \in {Digits[n] : n \in 1..10}
    /\ data[3] = "." /\ data[6] = "."
    /\ data[11] \in {" ", "\t", "\n", "\r"}
RECURSIVE SkipSpaces(_)
SkipSpaces(s) ==
    IF s # <<>> /\ Head(s) \in {" ", "\t", "\n", "\r"} THEN SkipSpaces(Tail(s)) ELSE s
Remainder(data) == SkipSpaces(SubSeq(data, 11, Len(data)))
DropFinalNewline(s) ==
    IF s # <<>> /\ s[Len(s)] = "\n" THEN SubSeq(s, 1, Len(s) - 1) ELSE s
HasNewline(s) == \E k \in 1..Len(s) : s[k] = "\n"

\* The date DD.MM.YYYY of the chunk read day first.
DayFirst(data) ==
    [year  |-> ToInt(SubSeq(data, 7, 10)),
     month |-> ToInt(SubSeq(data, 4, 5)),
     day   |-> ToInt(SubSeq(data, 1, 2))]

\* The step is a text chunk of the date form under an active event title.
ActiveDateForm == TourCall("data") /\ Truthy(eventTitle) /\ HasDateForm(call'.data)

\* C14: every chunk of the form DD.MM.YYYY, whitespace, remainder, handled
\* under an active title without an error, appends a record whose Event Date
\* is day DD, month MM, year YYYY and whose Event Brief is the remainder.
C14_DateDayFirstBriefIsRemainder ==
    [][(ActiveDateForm /\ pc' # "error") =>
          /\ Len(events') = Len(events) + 1
          /\ Last(events')["Event Date"] = DayFirst(call'.data)
          /\ Last(events')["Event Brief"] = Remainder(call'.data)]_vars

\* C14 as amended: the remainder may end in one newline, which is not part of
\* the brief; a chunk whose remainder holds a newline anywhere else does not
\* match the pattern and appends nothing.  Otherwise the chunk, handled
\* without an error, appends a record with the date read day first and the
\* remainder, less a final newline, as Event Brief.
C14_DateDayFirstBriefIsLine ==
    [][ActiveDateForm =>
          LET body == DropFinalNewline(Remainder(call'.data))
          IN  IF HasNewline(body)
              THEN events' = events /\ pc' = pc
              ELSE IF pc' = "error"
              THEN events' = events
              ELSE /\ Len(events') = Len(events) + 1
                   /\ Last(events')["Event Date"] = DayFirst(call'.data)
                   /\ Last(events')["Event Brief"] = body]_vars

\* C14's case: '01.02.1980 Tokyo' with a newline at its end recorded as the
\* first of February 1980 with the brief 'Tokyo'.
C14_Witness ==
    /\ call.op = "data"
    /\ call.data = TextTrailing
    /\ Len(events) = 1
    /\ events[1]["Event Date"] = [year |-> 1980, month |-> 2, day |-> 1]
    /\ events[1]["Event Brief"] = <<"T", "o", "k", "y", "o">>

\* s begins with the text lit, letters compared without case.
BeginsWith(s, lit) ==
    Len(s) >= Len(lit) /\ \A k \in 1..Len(lit) : Lower(s[k]) = Lower(lit[k])

\* Cleaning as removing the prefix 'Queen on tour: ' or 'Concert: ', with its
\* one space, once.
CleanFixedPrefix(s) ==
    IF BeginsWith(s, <<"Q", "u", "e", "e", "n", " ", "o", "n", " ", "t", "o", "u", "r", ":", " ">>) THEN SubSeq(s, Len(<<"Q", "u", "e", "e", "n", " ", "o", "n", " ", "t", "o", "u", "r", ":", " ">>) + 1, Len(s))
    ELSE IF BeginsWith(s, <<"C", "o", "n", "c", "e", "r", "t", ":", " ">>) THEN SubSeq(s, Len(<<"C", "o", "n", "c", "e", "r", "t", ":", " ">>) + 1, Len(s))
    ELSE s

\* Cleaning as removing 'Queen on tour:' or 'Concert:' with all the
\* whitespace after it, at least one character of it, once.
CleanPrefixAndSpaces(s) ==
    LET after(lit) == SubSeq(s, Len(lit) + 1, Len(s))
        strips(lit) == BeginsWith(s, lit) /\ SkipSpaces(after(lit)) # after(lit)
    IN  IF strips(<<"Q", "u", "e", "e", "n", " ", "o", "n", " ", "t", "o", "u", "r", ":">>) THEN SkipSpaces(after(<<"Q", "u", "e", "e", "n", " ", "o", "n", " ", "t", "o", "u", "r", ":">>))
        ELSE IF strips(<<"C", "o", "n", "c", "e", "r", "t", ":">>) THEN SkipSpaces(after(<<"C", "o", "n", "c", "e", "r", "t", ":">>))
        ELSE s

\* C15: the Tour Name and the Event Title of a record appended are the tour
\* name and the title with the fixed prefix 'Queen on tour: ' or 'Concert: '
\* removed once from the start, and are otherwise the strings themselves.
C15_CleaningStripsFixedPrefix ==
    [][events' # events =>
          /\ Last(events')["Tour Name"] = CleanFixedPrefix(tourName.v)
          /\ Last(events')["Event Title"] = CleanFixedPrefix(eventTitle.v)]_vars

\* C15 as amended: what is removed is 'Queen on tour:' or 'Concert:' at the
\* start, letters in any case, with the whole run of whitespace after it,
\* which must not be empty; it is removed once.  So a string with no such
\* start is kept as it is (also 'Concert:Live', with no whitespace), a
\* prefix later in the string is kept, and of a doubled prefix the second
\* stays, so that cleaning the result again would change it.
C15_CleaningStripsPrefixAndSpaces ==
    [][events' # events =>
          LET name  == Last(events')["Tour Name"]
              title == Last(events')["Event Title"]
          IN  /\ name = CleanPrefixAndSpaces(tourName.v)
              /\ title = CleanPrefixAndSpaces(eventTitle.v)
              /\ tourName.v = TextMagic => name = <<"M", "a", "g", "i", "c">>
              /\ tourName.v = NameWorks => name = <<"C", "o", "n", "c", "e", "r", "t", ":", " ", "W", "o", "r", "k", "s">>
              /\ tourName.v = NameDoubled =>
                    (name = <<"Q", "u", "e", "e", "n", " ", "o", "n", " ", "t", "o", "u", "r", ":", " ", "J", "a", "z", "z">> /\ CleanPrefixAndSpaces(name) # name)
              /\ tourName.v \in {NameLater, NameNoSpace} => name = tourName.v
              /\ eventTitle.v = TitleForum => title = <<"Q", "u", "e", "e", "n", " ", "l", "i", "v", "e", " ", "a", "t", " ", "t", "h", "e", " ", "F", "o", "r", "u", "m", ",", " ", "I", "n", "g", "l", "e", "w", "o", "o", "d", " ", "(", "U", "S", "A", ")">>
              /\ eventTitle.v = TitleRainbow => title = <<"C", "o", "n", "c", "e", "r", "t", ":", " ", "Q", "u", "e", "e", "n", " ", "L", "I", "V", "E", " ", "A", "T", " ", "T", "H", "E", " ", "R", "a", "i", "n", "b", "o", "w", ",", "L", "o", "n", "d", "o", "n">>
              /\ eventTitle.v \in {TitleHydePark, TitleBudokan} => title = eventTitle.v]_vars

\* C15's case: a record made from a tour name and a title that both have the
\* prefix twice; each keeps the second.
C15_Witness ==
    /\ call.op = "data"
    /\ tourName = Str(NameDoubled)
    /\ eventTitle = Str(TitleRainbow)
    /\ Len(events) = 1
    /\ events[1]["Tour Name"] = <<"Q", "u", "e", "e", "n", " ", "o", "n", " ", "t", "o", "u", "r", ":", " ", "J", "a", "z", "z">>
    /\ events[1]["Event Title"] = <<"C", "o", "n", "c", "e", "r", "t", ":", " ", "Q", "u", "e", "e", "n", " ", "L", "I", "V", "E", " ", "A", "T", " ", "T", "H", "E", " ", "R", "a", "i", "n", "b", "o", "w", ",", "L", "o", "n", "d", "o", "n">>

\* The start-tag of the step has an href that matches the event-detail
\* pattern.
QualifyingCall ==
    /\ "href" \in DOMAIN call'.attrs
    /\ call'.attrs["href"].st = "str"
    /\ eventUrlRegex_match(call'.attrs["href"].v)

\* C16: an anchor end-tag leaves the event title None, whatever it was, and
\* changes nothing else; while the title is None no step changes events, and
\* only the start-tag of a qualifying anchor makes the title other than None.
C16_AnchorEndClearsTitle ==
    [][/\ (TourCall("endtag") /\ call'.tag = "a") =>
             (/\ eventTitle' = None
              /\ is_h1' = is_h1 /\ tourName' = tourName /\ events' = events
              /\ pc' = pc)
       /\ eventTitle = None => events' = events
       /\ (eventTitle = None /\ eventTitle' # None) =>
             (TourCall("starttag") /\ call'.tag = "a" /\ QualifyingCall)]_vars

\* C16's case: the end-tag of a qualifying anchor in which a record was made,
\* inside an open heading: the title is gone, the rest is as it was.
C16_Witness ==
    /\ pc = "feedTour"
    /\ call.op = "endtag"
    /\ call.tag = "a"
    /\ eventTitle = None
    /\ is_h1
    /\ anchorHits = 1
    /\ Len(events) = anchorLen + 1

\* C17: the start-tag of an anchor with no href, or with an href that does
\* not match the event-detail pattern, changes none of the parser's fields
\* (a valueless href raises, and changes none either); a start-tag or
\* end-tag other than 'a' and 'h1' changes nothing and raises nothing.
C17_OtherTagsChangeNothing ==
    [][/\ (TourCall("starttag") /\ call'.tag = "a" /\ ~QualifyingCall) =>
             parserVars' = parserVars
       /\ ((TourCall("starttag") \/ TourCall("endtag")) /\ call'.tag \notin {"a", "h1"}) =>
             (parserVars' = parserVars /\ pc' = pc)]_vars

\* C17's case: inside an open qualifying anchor and an open heading, the
\* start-tag of an anchor whose href has no digits; the title of the open
\* anchor is still there.
C17_Witness ==
    /\ pc = "feedTour"
    /\ call.op = "starttag"
    /\ call.tag = "a"
    /\ "href" \in DOMAIN call.attrs
    /\ call.attrs["href"] = Str(HrefOther)
    /\ eventTitle = Str(TitleForum)
    /\ is_h1
    /\ tourName # None

\* C18: tourName changes only in a text chunk handled in a heading while no
\* event title is active, and becomes that text; no text chunk changes
\* is_h1 or the event title.
C18_TourNameOnlyFromHeadingText ==
    [][/\ tourName' # tourName =>
             (/\ TourCall("data")
              /\ is_h1
              /\ ~(eventTitle.st = "str" /\ eventTitle.v # <<>>)
              /\ tourName' = Str(call'.data))
       /\ TourCall("data") => (is_h1' = is_h1 /\ eventTitle' = eventTitle)]_vars

\* C18's case: a text chunk that is no date, handled in an open heading
\* while an event title is active; the tour name is still the earlier text.
C18_Witness ==
    /\ pc = "feedTour"
    /\ call.op = "data"
    /\ call.data = TextMagic
    /\ is_h1
    /\ eventTitle = Str(TitleForum)
    /\ tourName = Str(TextWembley)

\* C19: the fetch of a page and the end of its parse leave the event title
\* and is_h1 as they are; so when the first thing fed from a new page is a
\* date chunk and the title is active, the record carries that title, and
\* when it is text and a heading is open with no title active, the text
\* becomes the tour name.
C19_TagStateCrossesPages ==
    [][/\ call'.op \in {"get_response", "feed_done", "concat"} =>
             (eventTitle' = eventTitle /\ is_h1' = is_h1)
       /\ (call.op = "get_response" /\ ActiveDateChunk /\ pc' # "error") =>
             (/\ Len(events') = Len(events) + 1
              /\ Last(events')["Event Title"] = cleanupRegex_sub(eventTitle.v))
       /\ (call.op = "get_response" /\ TourCall("data") /\ is_h1 /\ ~Truthy(eventTitle)) =>
             tourName' = Str(call'.data)]_vars

\* C19's case: the second page has been fetched and nothing of it fed yet,
\* with the title of an anchor of the first page active and its heading open.
C19_Witness ==
    /\ pc = "feedTour"
    /\ call.op = "get_response"
    /\ i = 2
    /\ eventTitle = Str(TitleForum)
    /\ is_h1

====
